---- MODULE Spec2Model ----
(***************************************************************************)
(* Model of the circular angular evaluator (classify/val.py), of the        *)
(* oriented-box drawing script (classify/choosebox_and_draw.py) and of the *)
(* epoch loop of the trainer (classify/train.py).                          *)
(***************************************************************************)
EXTENDS Integers, Sequences, FiniteSets, TLC

VARIABLES
    pc,          \* position of the validation run / of the direct call
    pred,        \* ranked predictions: one row of TopK angles per sample
    pred_post,   \* ranked predictions of the post-processed scores
    targets,     \* ground-truth angle per sample
    threshold,   \* angle_threshold handed to the evaluator
    median,      \* post_process flag handed to the evaluator
    result,      \* what the evaluator returned (or the exception raised)
    rlabels,     \* lines of the rotated frame's label file
    line,        \* the label line the draw loop read last
    box,         \* what the draw loop computed and drew for that line
    count,       \* label lines read so far
    epochs,      \* opt.epochs of the training run
    valset,      \* number of images of the validation set
    nosave,      \* opt.nosave of the training run
    epoch,       \* epochs of the training loop completed so far
    fitness,     \* fitness of the epoch in progress
    best_fitness,\* best fitness of the training run
    top1s,       \* top-1 accuracies validated so far, oldest first
    saved        \* checkpoint files the last completed epoch wrote

evalVars == <<pred, pred_post, targets, threshold, median, result>>
drawVars == <<rlabels, line, box, count>>
trainVars == <<epochs, valset, nosave, epoch, fitness, best_fitness, top1s,
               saved>>
vars == <<pc, pred, pred_post, targets, threshold, median, result,
          rlabels, line, box, count, trainVars>>

(***************************************************************************)
(* Bounds and input sets                                                   *)
(***************************************************************************)
\* most samples of one validation run
MaxSamples == 2
\* ranked candidates kept per sample (the script keeps 15)
TopK == 2

\* class indices of the 360-bin score vector
Angle360 == 0 .. 359
\* candidate angles the ranked rows are drawn from
PredAngles == {10, 190, 350}
\* ground-truth angles
TargetAngles == {15, 10}
\* thresholds handed to the evaluator by a validation run
Thresholds == {2, 10, 180, 181}
\* thresholds of the direct calls with free tensor shapes
CallThresholds == {2, 10}

(***************************************************************************)
(* Helpers                                                                 *)
(***************************************************************************)
Abs(x) == IF x < 0 THEN -x ELSE x

RECURSIVE SumSeq(_)
SumSeq(s) == IF s = <<>> THEN 0 ELSE s[1] + SumSeq(Tail(s))

\* variant: the last column in place of the row maximum
MaxOfRowLast(row) == row[Len(row)]

\* correct.max(1).values of a row of 0/1 entries
MaxOfRow(row) == IF \E k \in 1 .. Len(row) : row[k] = 1 THEN 1 ELSE 0

Reverse(s) == [k \in 1 .. Len(s) |-> s[Len(s) + 1 - k]]

\* y.argsort(1, descending=True)[:, :15]: the first TopK entries of a
\* permutation of the class indices, hence pairwise distinct
Rows == {r \in [1 .. TopK -> PredAngles] :
            \A i, j \in 1 .. TopK : i # j => r[i] # r[j]}

\* y_postproc.argsort(1, descending=True)[:, :15]: the ranking of the smoothed
\* scores is another ranking of the classes; the runs here take the raw
\* ranking reversed
PostRow(row) == Reverse(row)

\* tensor.mean(0) of a column of 0/1 floats, kept as the exact fraction
\* num/den; den = 0 is the 0/0 of an empty column, which torch returns as nan
Mean(col) == [num |-> SumSeq(col), den |-> Len(col)]
IsNaN(m) == m.den = 0
IsOne(m) == m.den > 0 /\ m.num = m.den
IsZero(m) == m.den > 0 /\ m.num = 0
LeqAcc(m1, m2) == m1.num * m2.den <= m2.num * m1.den

(***************************************************************************)
(* CalculateTopk_and_GetWrongSample                                        *)
(***************************************************************************)
\* variants of the reduction: the wrap left out, the abs left out
BiasNoWrap(p, t) == Abs(p - t)
BiasSigned(p, t) ==
    LET d == p - t IN IF d <= 180 THEN d ELSE 360 - d

\* abs(p - target), then torch.where(b <= 180, b, 360 - b)
Bias(p, t) ==
    LET d == Abs(p - t) IN IF d <= 180 THEN d ELSE 360 - d

BiasRow(row, t) == [k \in 1 .. Len(row) |-> Bias(row[k], t)]

\* variant: every row reduced against the first target
BiasTopkFirstTarget(p, tg) ==
    [i \in 1 .. Len(p) |-> IF i <= Len(tg) THEN BiasRow(p[i], tg[1]) ELSE p[i]]

\* bias_topk after the loop over enumerate(targets): row i is reduced against
\* targets[i]; rows beyond len(targets) keep the cloned predictions
BiasTopk(p, tg) ==
    [i \in 1 .. Len(p) |-> IF i <= Len(tg) THEN BiasRow(p[i], tg[i]) ELSE p[i]]

\* variant: the exact-match test of the stock classifier
WithinExact(b, t) == b = t

\* torch.where(bias_topk <= t, 1, 0)
Within(b, t) == b <= t

Correct(bias, t) ==
    [i \in 1 .. Len(bias) |->
        [k \in 1 .. Len(bias[i]) |-> IF Within(bias[i][k], t) THEN 1 ELSE 0]]

\* acc = stack((correct[:, 0], correct.max(1).values), dim=1); acc.mean(0)
Top1Of(correct) == Mean([i \in 1 .. Len(correct) |-> correct[i][1]])
\* variant: the first column taken twice
Top5OfFirst(correct) == Top1Of(correct)
Top5Of(correct) == Mean([i \in 1 .. Len(correct) |-> MaxOfRow(correct[i])])

\* for i in range(threshold + 1): topk_list.append(acc.mean(0).tolist())
AccOf(correct) == <<Top1Of(correct), Top5Of(correct)>>
\* variant: the sweep stops one threshold short
TopkListShort(bias, t) ==
    [j \in 1 .. (IF t >= 1 THEN t ELSE 0) |-> AccOf(Correct(bias, j - 1))]

TopkList(bias, t) ==
    [j \in 1 .. (IF t >= 0 THEN t + 1 ELSE 0) |-> AccOf(Correct(bias, j - 1))]

\* variant: the entry read from the tensor the biases were written into
RECURSIVE WrongPredsBias(_, _, _, _, _)
WrongPredsBias(p, tg, bias, t, i) ==
    IF i > Len(tg) THEN <<>>
    ELSE (IF bias[i][1] > t THEN << <<bias[i][1], tg[i]>> >> ELSE <<>>)
         \o WrongPredsBias(p, tg, bias, t, i + 1)

\* wrong_preds: [pred[i, 0], target] appended when bias_topk[i, 0] > threshold
RECURSIVE WrongPreds(_, _, _, _, _)
WrongPreds(p, tg, bias, t, i) ==
    IF i > Len(tg) THEN <<>>
    ELSE (IF bias[i][1] > t THEN << <<p[i][1], tg[i]>> >> ELSE <<>>)
         \o WrongPreds(p, tg, bias, t, i + 1)

\* the three counters of the loop: >= 170, else <= 5, else the rest
LargeBias(bias, n) == Cardinality({i \in 1 .. n : bias[i][1] >= 170})
\* variant: a bias of exactly 5 is not small
SmallBiasStrict(bias, n) ==
    Cardinality({i \in 1 .. n : bias[i][1] < 170 /\ bias[i][1] < 5})

SmallBias(bias, n) ==
    Cardinality({i \in 1 .. n : bias[i][1] < 170 /\ bias[i][1] <= 5})
MidBias(bias, n) ==
    Cardinality({i \in 1 .. n : bias[i][1] < 170 /\ bias[i][1] > 5})

\* MedianFilterFilterForXYTop5(pred, targets, device) of utils.general: the
\* diagnostic bias of the smoothed prediction, reported beside the raw one;
\* its arguments are left as they are
MedianFilterFilterForXYTop5(p, tg) == "MedianFilterFilterForXYTop5"

\* variant: the post-processed ranking takes the place of the raw one when
\* post_process is set
CalculateTopkPost(p, pp, tg, t, post) ==
    IF Len(tg) > Len(p) \/ Len(tg) > Len(pp) THEN [raised |-> "IndexError"]
    ELSE LET q == IF post THEN pp ELSE p
             bias == BiasTopk(q, tg)
             n == Len(tg)
         IN [raised |-> "none",
             top1 |-> Top1Of(Correct(bias, t)),
             top5 |-> Top5Of(Correct(bias, t)),
             wrong_preds |-> WrongPreds(q, tg, bias, t, 1),
             correct |-> Correct(bias, t),
             bias_topk |-> bias,
             bias_median |-> IF post THEN MedianFilterFilterForXYTop5(p, tg) ELSE "None",
             bias_ori |-> [i \in 1 .. n |-> bias[i][1]],
             topk_list |-> TopkList(bias, t),
             large_bias_count |-> LargeBias(bias, n),
             samll_bias_count |-> SmallBias(bias, n),
             correct_bias_count |-> MidBias(bias, n)]

\* The whole function.  bias_topk[i] and bias_topk_post[i] with i beyond the
\* rows of pred or pred_post raise IndexError in the first iteration that
\* reaches them.
CalculateTopk(p, pp, tg, t, post) ==
    IF Len(tg) > Len(p) \/ Len(tg) > Len(pp) THEN [raised |-> "IndexError"]
    ELSE LET bias == BiasTopk(p, tg)
             n == Len(tg)
         IN [raised |-> "none",
             top1 |-> Top1Of(Correct(bias, t)),
             top5 |-> Top5Of(Correct(bias, t)),
             wrong_preds |-> WrongPreds(p, tg, bias, t, 1),
             correct |-> Correct(bias, t),
             bias_topk |-> bias,
             bias_median |-> IF post THEN MedianFilterFilterForXYTop5(p, tg) ELSE "None",
             bias_ori |-> [i \in 1 .. n |-> bias[i][1]],
             topk_list |-> TopkList(bias, t),
             large_bias_count |-> LargeBias(bias, n),
             samll_bias_count |-> SmallBias(bias, n),
             correct_bias_count |-> MidBias(bias, n)]

NoResult == [raised |-> "pending"]
NoBox == [raised |-> "pending"]

\* the drawing script is not part of a validation run
DrawIdle ==
    /\ rlabels = <<>>
    /\ line = <<>>
    /\ box = NoBox
    /\ count = 0

\* no training run is in progress
TrainIdle ==
    /\ epochs = 0
    /\ valset = 0
    /\ nosave = FALSE
    /\ epoch = 0
    /\ fitness = 0
    /\ best_fitness = 0
    /\ top1s = <<>>
    /\ saved = {}

(***************************************************************************)
(* run(): the validation loop, the evaluator on the concatenation, then    *)
(* the plots of the scores                                                 *)
(***************************************************************************)
\* the rows of the score tensor the probability plot reads: "range(1, 5)"
PlotRows == 1 .. 4

\* the plot of the score distributions at the end of a validation run over n
\* images: it indexes the rows PlotRows of the n-row score tensor
Plot_Prob_Distribution(n) ==
    IF \A i \in PlotRows : i < n THEN "none" ELSE "IndexError"

InitRun ==
    /\ pc = "loading"
    /\ pred = <<>>
    /\ pred_post = <<>>
    /\ targets = <<>>
    /\ threshold = 0
    /\ median = FALSE
    /\ result = NoResult
    /\ DrawIdle
    /\ TrainIdle

\* one pass of "for images, labels in bar": the ranked rows of the raw and of
\* the post-processed scores and the labels are appended together
AppendBatch ==
    /\ pc = "loading"
    /\ Len(pred) < MaxSamples
    /\ \E row \in Rows, label \in TargetAngles :
         /\ pred' = Append(pred, row)
         /\ pred_post' = Append(pred_post, PostRow(row))
         /\ targets' = Append(targets, label)
    /\ UNCHANGED <<pc, threshold, median, result, drawVars, trainVars>>

\* torch.cat(pred) of an empty list raises before the evaluator is reached
ValidateEmpty ==
    /\ pc = "loading"
    /\ pred = <<>>
    /\ pc' = "failed"
    /\ result' = [raised |-> "RuntimeError"]
    /\ UNCHANGED <<pred, pred_post, targets, threshold, median, drawVars, trainVars>>

Validate ==
    /\ pc = "loading"
    /\ pred # <<>>
    /\ \E t \in Thresholds :
         /\ threshold' = t
         /\ result' = CalculateTopk(pred, pred_post, targets, t, median)
    /\ pc' = "done"
    /\ UNCHANGED <<pred, pred_post, targets, median, drawVars, trainVars>>

\* the end of run(): Plot_What_U_Want(func_name='prob_dis', ...) on the
\* scores of all samples, then the return of what the evaluator computed
PlotResults ==
    /\ pc = "done"
    /\ LET raised == Plot_Prob_Distribution(Len(targets))
       IN /\ pc' = IF raised = "none" THEN "returned" ELSE "failed"
          /\ result' = IF raised = "none" THEN result ELSE [raised |-> raised]
    /\ UNCHANGED <<pred, pred_post, targets, threshold, median, drawVars,
                   trainVars>>

NextRun == AppendBatch \/ ValidateEmpty \/ Validate \/ PlotResults

Spec == InitRun /\ [][NextRun]_vars

(***************************************************************************)
(* The evaluator called directly on tensors of any two lengths             *)
(***************************************************************************)
RowSeqs == UNION {[1 .. n -> Rows] : n \in 0 .. MaxSamples}
TargetSeqs == UNION {[1 .. n -> TargetAngles] : n \in 0 .. MaxSamples}

InitCall ==
    /\ pc = "idle"
    /\ pred = <<>>
    /\ pred_post = <<>>
    /\ targets = <<>>
    /\ threshold = 0
    /\ median = FALSE
    /\ result = NoResult
    /\ DrawIdle
    /\ TrainIdle

Call ==
    /\ pc = "idle"
    /\ \E p \in RowSeqs, tg \in TargetSeqs, t \in CallThresholds, m \in BOOLEAN :
         /\ pred' = p
         /\ pred_post' = [i \in 1 .. Len(p) |-> PostRow(p[i])]
         /\ targets' = tg
         /\ threshold' = t
         /\ median' = m
         /\ result' = CalculateTopk(p, pred_post', tg, t, m)
    /\ pc' = "returned"
    /\ UNCHANGED <<drawVars, trainVars>>

NextCall == Call

SpecCall == InitCall /\ [][NextCall]_vars

(***************************************************************************)
(* The evaluator on batches whose post-processed ranking is, row by row,   *)
(* the raw ranking or another ranking of the same classes                  *)
(***************************************************************************)
PostChoices(p) ==
    {pp \in [1 .. Len(p) -> Rows] : \A i \in 1 .. Len(p) : pp[i] \in {p[i], Reverse(p[i])}}

CallPost ==
    /\ pc = "idle"
    /\ \E p \in RowSeqs, t \in CallThresholds, m \in BOOLEAN :
         \E pp \in PostChoices(p), tg \in [1 .. Len(p) -> TargetAngles] :
            /\ pred' = p
            /\ pred_post' = pp
            /\ targets' = tg
            /\ threshold' = t
            /\ median' = m
            /\ result' = CalculateTopk(p, pp, tg, t, m)
    /\ pc' = "returned"
    /\ UNCHANGED <<drawVars, trainVars>>

NextPost == CallPost

SpecPost == InitCall /\ [][NextPost]_vars

(***************************************************************************)
(* The evaluator on every pair of one predicted and one true angle         *)
(***************************************************************************)
CallPair ==
    /\ pc = "idle"
    /\ \E a \in Angle360, b \in Angle360 :
         /\ pred' = << <<a>> >>
         /\ pred_post' = << <<a>> >>
         /\ targets' = <<b>>
         /\ result' = CalculateTopk(pred', pred_post', targets', threshold, median)
    /\ pc' = "returned"
    /\ UNCHANGED <<threshold, median, drawVars, trainVars>>

NextPair == CallPair

SpecPair == InitCall /\ [][NextPair]_vars

(***************************************************************************)
(* choosebox_and_draw.py                                                   *)
(*                                                                         *)
(* A label line is the sequence of its space-separated fields.  The angle  *)
(* field is an integer; the x, y, w, h fields are fractions of the image   *)
(* size, held as numerators over 40 (0.5 is 20, 0.1 is 4).  A pixel length *)
(* of the primary frame is a whole number of pixels and the error of the   *)
(* float that stands for it; the extents rw, rh are in millionths of a     *)
(* pixel, the cosines and sines of the wedge angle in millionths.  The     *)
(* projection into the rotated frame and the distances of the matcher are  *)
(* the doubles of the script wherever the whole-number arithmetic does not *)
(* decide the result.                                                      *)
(***************************************************************************)
\* most lines of the rotated frame's label file
MaxCands == 2
\* most lines of the primary label file
MaxLines == 2

\* img.shape of the primary image: (height, width)
ImgShape == <<200, 200>>

\* angle fields of the primary label lines
DrawAngles == {0, 10, 30, 45, 60, 90, 200, 300}
\* primary label lines: angle, x, y, w, h, the last four as numerators over
\* 40; the fields 11/40, 22/40 and 23/40 give floats that are not whole
\* pixels
Lines ==
    {<<a, xy[1], xy[2], wh[1], wh[2]>> :
        a \in DrawAngles, xy \in {<<20, 20>>, <<10, 25>>},
        wh \in {<<4, 8>>, <<8, 4>>}}
    \cup {<<30, 20, 20, 4>>, <<30, 20, 20, 4, 8, 1>>}
    \cup {<<0, 20, 20, 2, 4>>, <<90, 20, 20, 1, 4>>}
    \cup {<<0, 23, 20, 4, 8>>, <<90, 20, 20, 22, 40>>, <<10, 20, 23, 11, 22>>}
    \cup {<<30, 11, 20, 4, 8>>}
\* lines of the rotated frame's label file
CandLines ==
    {<<0, 15, 15, 4, 6>>, <<0, 20, 20, 10, 2>>, <<0, 15, 20, 4, 6>>,
     <<0, 17, 6, 10, 2>>}
CandFiles == UNION {[1 .. n -> CandLines] : n \in 0 .. MaxCands}

\* int(): truncation toward zero of num / den, den > 0
Trunc(num, den) == IF num >= 0 THEN num \div den ELSE -((-num) \div den)

\* 2^n, n = 0 .. 20
Pow2(n) ==
    <<1, 2, 4, 8, 16, 32, 64, 128, 256, 512, 1024, 2048, 4096, 8192, 16384,
      32768, 65536, 131072, 262144, 524288, 1048576>>[n + 1]

\* the binade of num / den > 0: the b with 2^b <= num / den < 2^(b+1)
RECURSIVE Binade(_, _)
Binade(num, den) ==
    IF num >= 2 * den THEN Binade(num, 2 * den) + 1
    ELSE IF num < den THEN Binade(2 * num, den) - 1
    ELSE 0

\* a / c, c > 0, rounded to the nearest whole number, a tie to the even one
RoundHalfEven(a, c) ==
    LET q == a \div c
        r == a % c
    IN IF 2 * r > c \/ (2 * r = c /\ q % 2 = 1) THEN q + 1 ELSE q

\* 2^p mod 40 for p >= 3
Pow2Mod40(p) == <<8, 16, 32, 24>>[((p - 3) % 4) + 1]

\* A float is kept as a number of pixels px and an error err in units of
\* 2^-60 pixel: the double is px + err / 2^60.
\* float(field) * dimension for the field n / 40 and a dimension that makes
\* n * dim / 40 whole: float(field) is n / 40 rounded to 53 bits, which puts
\* it dN / (40 * 2^(52+j)) off for n / 40 in [2^-j, 2^(1-j)); the product
\* with dim is rounded to 53 bits again
Px(n, dim) ==
    LET T == (n * dim) \div 40
    IN IF T = 0 THEN [px |-> 0, err |-> 0]
       ELSE LET j == -Binade(n, 40)
                r == (n * Pow2Mod40(52 + j)) % 40
                dN == IF r < 20 THEN -r ELSE 40 - r
                b == Binade(T, 1)
                low == T = Pow2(b) /\ dN < 0
                ulp == IF low THEN Pow2(b + 7) ELSE Pow2(b + 8)
                den == IF low THEN 20 * Pow2(j + b) ELSE 40 * Pow2(j + b)
            IN [px |-> T,
                err |-> IF dN = 0 THEN 0
                        ELSE RoundHalfEven(dim * dN, den) * ulp]

\* a > b for two floats
FloatGreater(a, b) == a.px > b.px \/ (a.px = b.px /\ a.err > b.err)

\* int(c + sign * e / 2) for two floats c and e and sign 1 or -1: the exact
\* sum is h half pixels and err units, the float sum is that rounded to 53
\* bits, and int() truncates toward zero
IntOffset(c, e, sign) ==
    LET h == 2 * c.px + sign * e.px
        err == c.err + sign * (e.err \div 2)
        a == Abs(h)
        s == IF h > 0 THEN 1 ELSE -1
        b0 == Binade(a, 2)
        b == IF a = Pow2(b0 + 1) /\ s * err < 0 THEN b0 - 1 ELSE b0
        rounded == IF h = 0 \/ err = 0 THEN err
                   ELSE s * RoundHalfEven(s * err, Pow2(b + 8)) * Pow2(b + 8)
    IN IF h % 2 # 0 THEN Trunc(h, 2)
       ELSE IF h > 0 /\ rounded < 0 THEN h \div 2 - 1
       ELSE IF h < 0 /\ rounded > 0 THEN h \div 2 + 1
       ELSE h \div 2

(***************************************************************************)
(* Doubles, bit for bit.  A whole number of any size is a sequence of      *)
(* limbs below 2^14, the least significant first, <<>> being 0; a double   *)
(* is sgn * man * 2^exp with man of exactly 53 bits, or sgn = 0.           *)
(***************************************************************************)
Limb == Pow2(14)

RECURSIVE BigCarry(_, _, _, _)
BigCarry(cols, i, c, acc) ==
    IF i > Len(cols) /\ c = 0 THEN acc
    ELSE LET t == (IF i <= Len(cols) THEN cols[i] ELSE 0) + c
         IN BigCarry(cols, i + 1, t \div Limb, Append(acc, t % Limb))

RECURSIVE BigTrim(_)
BigTrim(a) ==
    IF a # <<>> /\ a[Len(a)] = 0 THEN BigTrim(SubSeq(a, 1, Len(a) - 1)) ELSE a

\* the whole number n >= 0
BigOf(n) == BigTrim(BigCarry(<<n>>, 1, 0, <<>>))

BigLimb(a, i) == IF i <= Len(a) THEN a[i] ELSE 0

BigAdd(a, b) ==
    LET n == IF Len(a) > Len(b) THEN Len(a) ELSE Len(b)
    IN BigTrim(BigCarry([i \in 1 .. n |-> BigLimb(a, i) + BigLimb(b, i)],
                        1, 0, <<>>))

\* a - b for a >= b
BigSub(a, b) ==
    BigTrim(BigCarry([i \in 1 .. Len(a) |-> a[i] - BigLimb(b, i)], 1, 0, <<>>))

BigLess(a, b) ==
    \/ Len(a) < Len(b)
    \/ /\ Len(a) = Len(b)
       /\ \E i \in 1 .. Len(a) :
             /\ a[i] < b[i]
             /\ \A j \in i + 1 .. Len(a) : a[j] = b[j]

\* column k of the product: the sum of a[i] * b[k + 1 - i]
RECURSIVE BigDot(_, _, _, _)
BigDot(a, b, k, i) ==
    IF i > Len(a) \/ i > k THEN 0
    ELSE (IF k + 1 - i <= Len(b) THEN a[i] * b[k + 1 - i] ELSE 0)
         + BigDot(a, b, k, i + 1)

BigMul(a, b) ==
    IF a = <<>> \/ b = <<>> THEN <<>>
    ELSE BigTrim(BigCarry([k \in 1 .. Len(a) + Len(b) - 1 |-> BigDot(a, b, k, 1)],
                          1, 0, <<>>))

\* a * 2^n and the whole part of a / 2^n
BigShl(a, n) ==
    BigTrim(BigCarry([i \in 1 .. Len(a) + n \div 14 |->
                         IF i <= n \div 14 THEN 0
                         ELSE a[i - n \div 14] * Pow2(n % 14)],
                     1, 0, <<>>))

BigShr(a, n) ==
    LET q == n \div 14
        r == n % 14
    IN IF q >= Len(a) THEN <<>>
       ELSE BigTrim([i \in 1 .. Len(a) - q |->
                        a[i + q] \div Pow2(r)
                        + (BigLimb(a, i + q + 1) % Pow2(r)) * Pow2(14 - r)])

\* the number of bits of a, bit n of a, and whether a is a multiple of 2^n
BigBits(a) ==
    IF a = <<>> THEN 0 ELSE 14 * (Len(a) - 1) + Binade(a[Len(a)], 1) + 1

BigBit(a, n) == (BigLimb(a, n \div 14 + 1) \div Pow2(n % 14)) % 2

BigLowZero(a, n) ==
    /\ \A i \in 1 .. n \div 14 : BigLimb(a, i) = 0
    /\ BigLimb(a, n \div 14 + 1) % Pow2(n % 14) = 0

\* a as a number, a below 2^31
RECURSIVE BigInt(_)
BigInt(a) == IF a = <<>> THEN 0 ELSE a[1] + Limb * BigInt(Tail(a))

\* the whole part of a / d and whether a remainder is left, d below 2^16:
\* long division from limb i down, rem carried in
RECURSIVE BigDiv(_, _, _, _, _)
BigDiv(a, d, i, rem, acc) ==
    IF i = 0 THEN [quot |-> BigTrim(acc), exact |-> rem = 0]
    ELSE LET t == rem * Limb + a[i]
         IN BigDiv(a, d, i - 1, t % d, <<t \div d>> \o acc)

FloatZero == [sgn |-> 0, man |-> <<>>, exp |-> 0]

\* sgn * man * 2^exp rounded to the nearest double, a tie to the even one
FloatRound(sgn, man, exp) ==
    LET s == BigBits(man) - 53
        \* the rounded mantissa r, of 53 bits or 2^53
        Carry(r) ==
            IF BigBits(r) = 54
            THEN [sgn |-> sgn, man |-> BigShr(r, 1), exp |-> exp + s + 1]
            ELSE [sgn |-> sgn, man |-> r, exp |-> exp + s]
        ToNearest(q) ==
            Carry(IF /\ BigBit(man, s - 1) = 1
                     /\ (~BigLowZero(man, s - 1)) \/ q[1] % 2 = 1
                  THEN BigAdd(q, <<1>>) ELSE q)
    IN IF man = <<>> \/ sgn = 0 THEN FloatZero
       ELSE IF s <= 0 THEN [sgn |-> sgn, man |-> BigShl(man, -s), exp |-> exp + s]
       ELSE ToNearest(BigShr(man, s))

FloatNeg(a) == [a EXCEPT !.sgn = -a.sgn]

FloatMul(a, b) ==
    FloatRound(a.sgn * b.sgn, BigMul(a.man, b.man), a.exp + b.exp)

FloatAdd(a, b) ==
    IF a.sgn = 0 THEN b
    ELSE IF b.sgn = 0 THEN a
    ELSE LET e == IF a.exp < b.exp THEN a.exp ELSE b.exp
             \* the mantissas am, bm at the exponent e
             Sum(am, bm, less) ==
                 FloatRound(IF a.sgn # b.sgn /\ less THEN b.sgn ELSE a.sgn,
                            IF a.sgn = b.sgn THEN BigAdd(am, bm)
                            ELSE IF less THEN BigSub(bm, am)
                            ELSE BigSub(am, bm),
                            e)
             Aligned(am, bm) == Sum(am, bm, BigLess(am, bm))
         IN Aligned(BigShl(a.man, a.exp - e), BigShl(b.man, b.exp - e))

FloatSub(a, b) == FloatAdd(a, FloatNeg(b))

FloatLess(a, b) == FloatSub(a, b).sgn < 0

\* float(n) for a whole number n, and n / 2 for a whole number n
FloatOfInt(n) ==
    FloatRound(IF n < 0 THEN -1 ELSE 1, BigOf(IF n < 0 THEN -n ELSE n), 0)

FloatHalf(n) ==
    IF n = 0 THEN FloatZero ELSE [FloatOfInt(n) EXCEPT !.exp = @ - 1]

\* float("n/d") for the decimal fraction n / d, n >= 0: the quotient to 70
\* binary places, its last bit set when the division left a remainder
FloatOfRatio(n, d) ==
    LET Quotient(qr) ==
            FloatRound(1, BigAdd(BigShl(qr.quot, 1),
                                 IF qr.exact THEN <<>> ELSE <<1>>), -71)
        Divide(num) == Quotient(BigDiv(num, d, Len(num), 0, <<>>))
    IN Divide(BigShl(BigOf(n), 70))

\* int(a): the fraction dropped
FloatInt(a) ==
    IF a.sgn = 0 THEN 0
    ELSE a.sgn * BigInt(IF a.exp >= 0 THEN BigShl(a.man, a.exp)
                        ELSE BigShr(a.man, -a.exp))

\* the double of a float kept as pixels and error
FloatOfPx(p) ==
    LET Sixtieths(whole) ==
            FloatRound(1, IF p.err >= 0 THEN BigAdd(whole, BigOf(p.err))
                          ELSE BigSub(whole, BigOf(-p.err)), -60)
    IN Sixtieths(BigShl(BigOf(p.px), 60))

\* math.cos(math.radians(45)) = 0x1.6a09e667f3bcdp-1 and
\* math.sin(math.radians(45)) = 0x1.6a09e667f3bccp-1
Cos45Float == [sgn |-> 1, man |-> <<15309, 6652, 2534, 1448>>, exp |-> -53]
Sin45Float == [sgn |-> 1, man |-> <<15308, 6652, 2534, 1448>>, exp |-> -53]

\* pow(a, 2.0): the double nearest to the square, and where the square lies
\* within 1/16 of a unit in the last place of the middle between two doubles
\* either of the two, the C library's pow being that accurate and no more
FloatSquare(a) ==
    LET \* the square sq of the mantissa, q its leading 53 bits and t the four
        \* bits after them
        Either(sq, s, q, t) ==
            IF s > 0 /\ t \in {7, 8}
            THEN {FloatRound(1, m, 2 * a.exp + s) : m \in {q, BigAdd(q, <<1>>)}}
            ELSE {FloatRound(1, sq, 2 * a.exp)}
        Leading(sq, s) ==
            Either(sq, s, BigShr(sq, s),
                   BigLimb(BigShr(BigShl(sq, 4), s), 1) % 16)
        Square(sq) == Leading(sq, BigBits(sq) - 53)
    IN IF a.sgn = 0 THEN {FloatZero} ELSE Square(BigMul(a.man, a.man))

\* the whole part of the square root of n, known to be lo or more and
\* less than hi
RECURSIVE SqrtBetween(_, _, _)
SqrtBetween(n, lo, hi) ==
    IF hi - lo <= 1 THEN lo
    ELSE LET mid == (lo + hi) \div 2
         IN IF mid * mid <= n THEN SqrtBetween(n, mid, hi)
            ELSE SqrtBetween(n, lo, mid)

\* the whole part of s / sqrt(2) and of s sqrt(2) for a whole number s >= 0
\* below 46341 and below 32768
FloorOverRoot2(s) ==
    SqrtBetween((s * s) \div 2, (s * 7071) \div 10000, (s * 7072) \div 10000 + 1)

FloorTimesRoot2(s) ==
    SqrtBetween(2 * s * s, (s * 14142) \div 10000, (s * 14143) \div 10000 + 1)

\* math.cos(math.radians(d)) in millionths, d = 0 .. 90
CosTable ==
    <<1000000, 999848, 999391, 998630, 997564, 996195, 994522, 992546,
      990268, 987688, 984808, 981627, 978148, 974370, 970296, 965926,
      961262, 956305, 951057, 945519, 939693, 933580, 927184, 920505,
      913545, 906308, 898794, 891007, 882948, 874620, 866025, 857167,
      848048, 838671, 829038, 819152, 809017, 798636, 788011, 777146,
      766044, 754710, 743145, 731354, 719340, 707107, 694658, 681998,
      669131, 656059, 642788, 629320, 615661, 601815, 587785, 573576,
      559193, 544639, 529919, 515038, 500000, 484810, 469472, 453990,
      438371, 422618, 406737, 390731, 374607, 358368, 342020, 325568,
      309017, 292372, 275637, 258819, 241922, 224951, 207912, 190809,
      173648, 156434, 139173, 121869, 104528, 87156, 69756, 52336, 34899,
      17452, 0>>

CosDeg(d) ==
    LET m == d % 360
    IN IF m <= 90 THEN CosTable[m + 1]
       ELSE IF m <= 180 THEN -CosTable[180 - m + 1]
       ELSE IF m <= 270 THEN -CosTable[m - 180 + 1]
       ELSE CosTable[360 - m + 1]

SinDeg(d) == CosDeg(d - 90)

\* x * c / 1000000 for a cosine or sine c in millionths, rounded, and
\* x * 1000000 / c, truncated; x is in millionths of a pixel and the steps
\* stay within 32-bit integers
MulTrig(x, c) ==
    LET xh == Abs(x) \div 1000
        xl == Abs(x) % 1000
        ch == Abs(c) \div 1000
        cl == Abs(c) % 1000
        v == xh * ch + (xh * cl + xl * ch + (xl * cl + 500) \div 1000 + 500) \div 1000
    IN IF (x < 0) = (c < 0) THEN v ELSE -v

DivTrig(x, c) ==
    LET ac == Abs(c)
        r0 == Abs(x) % ac
        r1 == (r0 * 1000) % ac
        v == (Abs(x) \div ac) * 1000000 + ((r0 * 1000) \div ac) * 1000
             + (r1 * 1000) \div ac
    IN IF (x < 0) = (c < 0) THEN v ELSE -v

\* create_rotated45_img: rw = int((w + h) * cos(45 deg)); rh = rw.  The
\* double product is within 1e-12 of (w + h) / sqrt(2), which is no nearer
\* than 1 / (3 (w + h)) to a whole number, so that the whole part is that of
\* (w + h) / sqrt(2)
RotatedSide(w, h) == FloorOverRoot2(w + h)
RImgShape == <<RotatedSide(ImgShape[2], ImgShape[1]), RotatedSide(ImgShape[2], ImgShape[1])>>

\* the statements of rotate_point in doubles, before int(): x and y are
\* floats, w and h whole numbers, rw the side of the rotated frame
RotateFloat(x, y, w, h, rw) ==
    LET rh == rw
        \* after "x -= w/2" and "y -= h/2"
        Rotated(fx, fy) ==
            <<FloatAdd(FloatAdd(FloatAdd(FloatMul(fx, Cos45Float),
                                         FloatMul(fy, Sin45Float)),
                                FloatHalf(w)),
                       FloatHalf(rw - w)),
              FloatAdd(FloatAdd(FloatAdd(FloatMul(FloatNeg(fx), Sin45Float),
                                         FloatMul(fy, Cos45Float)),
                                FloatHalf(h)),
                       FloatHalf(rh - h))>>
    IN Rotated(FloatSub(FloatOfPx(x), FloatHalf(w)),
               FloatSub(FloatOfPx(y), FloatHalf(h)))

\* int(a / (2 sqrt(2)) + r / 2) for whole numbers a # 0 and r: four times the
\* sum is a sqrt(2) + 2 r, never whole, of whole part u
TruncRoot2(a, r) ==
    LET u == (IF a > 0 THEN FloorTimesRoot2(a) ELSE -FloorTimesRoot2(-a) - 1)
             + 2 * r
    IN IF u >= 0 THEN u \div 4 ELSE -((-u - 1) \div 4)

\* one coordinate of rotate_point: a is twice the sum of the two offsets
\* from the centre that the coordinate adds up.  For a # 0 the sum is no
\* nearer than 1 / (12 |a| + 4) to a whole number and the double has the
\* whole part of the real number; for a = 0 the real number is r / 2 and the
\* double is computed, unless both offsets are 0 and every step is exact
RotatedCoord(a, centre, r, computed) ==
    IF a # 0 THEN TruncRoot2(a, r)
    ELSE IF centre THEN Trunc(r, 2)
    ELSE FloatInt(computed)

\* variant: the side of the rotated frame rounded to the nearest pixel
rotate_point_round(x, y, w, h) ==
    LET floor == RotatedSide(w, h)
        rw == IF (2 * floor + 1) * (2 * floor + 1) <= 2 * (w + h) * (w + h)
              THEN floor + 1 ELSE floor
        rh == rw
        x2 == 2 * x.px - w
        y2 == 2 * y.px - h
        centre == x2 = 0 /\ y2 = 0 /\ x.err = 0 /\ y.err = 0
        Truncated(computed) ==
            <<RotatedCoord(x2 + y2, centre, rw, computed[1]),
              RotatedCoord(y2 - x2, centre, rh, computed[2])>>
    IN Truncated(RotateFloat(x, y, w, h, rw))

\* rotate_point(x, y, w, h, 45), the only angle it is called with, for the
\* floats x and y:
\* x' = (x - w/2) cos + (y - h/2) sin + w/2 + (rw - w)/2, and
\* y' = -(x - w/2) sin + (y - h/2) cos + h/2 + (rh - h)/2, each through int()
rotate_point(x, y, w, h) ==
    LET rw == RotatedSide(w, h)
        rh == rw
        x2 == 2 * x.px - w
        y2 == 2 * y.px - h
        centre == x2 = 0 /\ y2 = 0 /\ x.err = 0 /\ y.err = 0
        Truncated(computed) ==
            <<RotatedCoord(x2 + y2, centre, rw, computed[1]),
              RotatedCoord(y2 - x2, centre, rh, computed[2])>>
    IN Truncated(RotateFloat(x, y, w, h, rw))

\* the squared distances of check_neareat_coord as real numbers, in units of
\* 1/1600 pixel squared, from the whole pixels of the query point: candidate
\* i lies at field * shape / 40.  Two of them that differ differ by 1/1600
\* pixel squared or more, the doubles of dis_list are within 1e-10 of them
DisExact(rx, ry, shape, lines) ==
    [i \in 1 .. Len(lines) |->
        (40 * rx.px - lines[i][2] * shape[2]) * (40 * rx.px - lines[i][2] * shape[2])
        + (40 * ry.px - lines[i][3] * shape[1]) * (40 * ry.px - lines[i][3] * shape[1])]

\* (rx - x)**2 + (ry - y)**2 for the line l, in doubles: the values the sum
\* can take, one unless a square has two
Dis(rx, ry, shape, l) ==
    LET x == FloatMul(FloatOfRatio(l[2], 40), FloatOfInt(shape[2]))
        y == FloatMul(FloatOfRatio(l[3], 40), FloatOfInt(shape[1]))
    IN {FloatAdd(p, q) : p \in FloatSquare(FloatSub(FloatOfPx(rx), x)),
                         q \in FloatSquare(FloatSub(FloatOfPx(ry), y))}

\* dis_list in doubles: the lists the loop can build, lines of one x and y
\* having one distance
DisList(rx, ry, shape, lines) ==
    LET Lists(dis) ==
            {dl \in [DOMAIN lines -> UNION {dis[i] : i \in DOMAIN lines}] :
                \A i \in DOMAIN lines :
                    /\ dl[i] \in dis[i]
                    /\ \A j \in DOMAIN lines :
                          (lines[i][2] = lines[j][2] /\ lines[i][3] = lines[j][3])
                              => dl[i] = dl[j]}
    IN Lists([i \in DOMAIN lines |-> Dis(rx, ry, shape, lines[i])])

\* the place of each double among the doubles of the list: how many are less
DisOrder(dl) ==
    [i \in DOMAIN dl |-> Cardinality({j \in DOMAIN dl : FloatLess(dl[j], dl[i])})]

MinOf(seq) == CHOOSE v \in {seq[i] : i \in DOMAIN seq} : \A i \in DOMAIN seq : v <= seq[i]

\* variant: the last index holding the value
LastIndexOf(seq, v) ==
    CHOOSE i \in DOMAIN seq : seq[i] = v /\ \A j \in DOMAIN seq : j > i => seq[j] # v

\* list.index(v): the first index holding the value
IndexOf(seq, v) ==
    CHOOSE i \in DOMAIN seq : seq[i] = v /\ \A j \in DOMAIN seq : j < i => seq[j] # v

\* the members of a set of numbers in ascending order
Ascending(S) ==
    CHOOSE s \in [1 .. Cardinality(S) -> S] :
        \A a, b \in 1 .. Cardinality(S) : a < b => s[a] < s[b]

\* dis_list.index(min(dis_list)), counted from 1: the values it can take.
\* The least double is among the lines of the least real distance; where
\* these lie at one x and y their doubles are one double, and otherwise the
\* doubles decide
Nearest(rx, ry, shape, lines) ==
    LET exact == DisExact(rx, ry, shape, lines)
        first == IndexOf(exact, MinOf(exact))
        near == {i \in DOMAIN lines : exact[i] = exact[first]}
        idx == Ascending(near)
    IN IF \A i \in near : lines[i][2] = lines[first][2] /\ lines[i][3] = lines[first][3]
       THEN {first}
       ELSE LET Index(dis_list) == idx[IndexOf(dis_list, MinOf(dis_list))]
            IN {Index(DisOrder(dl)) :
                   dl \in DisList(rx, ry, shape, [k \in DOMAIN idx |-> lines[idx[k]]])}

\* variant: no line gives a width and height of zero
check_neareat_coord_default(rx, ry, shape, lines) ==
    IF lines = <<>> THEN {[raised |-> "none", min_value |-> -1, w |-> 0, h |-> 0]}
    ELSE {[raised |-> "none",
           min_value |-> min_value - 1,
           w |-> lines[min_value][4],
           h |-> lines[min_value][5]] :
              min_value \in Nearest(rx, ry, shape, lines)}

\* check_neareat_coord(rx, ry, img, file) for the floats rx and ry: the
\* normalized w, h fields of the first line at the least squared distance,
\* one outcome for each value the index can take; min() of no line raises
\* ValueError, a line with fewer than five fields raises IndexError
check_neareat_coord(rx, ry, shape, lines) ==
    IF \E i \in DOMAIN lines : Len(lines[i]) < 5 THEN {[raised |-> "IndexError"]}
    ELSE IF lines = <<>> THEN {[raised |-> "ValueError"]}
    ELSE {[raised |-> "none",
           min_value |-> min_value - 1,
           w |-> lines[min_value][4],
           h |-> lines[min_value][5]] :
              min_value \in Nearest(rx, ry, shape, lines)}

\* restrict angle to 0-90, then to 0-45
restrict_angle180(angle) == IF angle < 180 THEN angle ELSE angle - 180
restrict_angle90(angle) ==
    LET a == restrict_angle180(angle) IN IF a <= 90 THEN a ELSE a - 90
\* variant: no fold at 45
restrict_angle45NoFold(angle) == restrict_angle90(angle)

restrict_angle45(angle) ==
    LET a == restrict_angle90(angle) IN IF a <= 45 THEN a ELSE 90 - a

\* variant: a narrower zone
InMatchZoneNarrow(a90) == a90 > 30 /\ a90 < 60
\* variant: the limits rounded to whole degrees and included
InMatchZoneRounded(a90) == a90 >= 22 /\ a90 <= 68

\* 22.5 < restrict_angle90 < 67.5
InMatchZone(a90) == 2 * a90 > 45 /\ 2 * a90 < 135

\* int() of the float that stands for t / 2000000 pixels, t a sum of rounded
\* products that is good to 0.0003 pixel.  A value further than that from a
\* whole pixel is truncated toward zero.  A value that close to a whole
\* pixel n is a float on n or just beside it, on the side the rounding of
\* math.cos and math.sin and of the products leaves it, and int() gives n or
\* the pixel next to n toward zero: both are outcomes
IntPx(t) ==
    LET n == (t + 1000000) \div 2000000
    IN IF Abs(t - 2000000 * n) > 600 THEN {Trunc(t, 2000000)}
       ELSE IF n > 0 THEN {n - 1, n}
       ELSE IF n < 0 THEN {n, n + 1}
       ELSE {0}

\* variant: the third corner on the wrong side of the centre
CornersRawSkew(angle, x, y, rw, rh) ==
    LET r_cos == CosDeg(angle + 90)
        r_sin == SinDeg(angle + 90)
        wc == MulTrig(rw, r_cos)
        ws == MulTrig(rw, r_sin)
        hc == MulTrig(rh, r_cos)
        hs == MulTrig(rh, r_sin)
        cx == 2000000 * x
        cy == 2000000 * y
    IN [pt1 |-> <<-wc - hs + cx, ws - hc + cy>>,
        pt2 |-> <<wc - hs + cx, -ws - hc + cy>>,
        pt3 |-> <<wc - hs + cx, -ws + hc + cy>>,
        pt4 |-> <<-wc + hs + cx, ws + hc + cy>>]

\* the four corners before int(), in units of 1/2000000 pixel, from the
\* extents in millionths of a pixel: pt1 = (-rw/2*r_cos - rh/2*r_sin) + x,
\* (rw/2*r_sin - rh/2*r_cos) + y, and so on
CornersRaw(angle, x, y, rw, rh) ==
    LET r_cos == CosDeg(angle + 90)
        r_sin == SinDeg(angle + 90)
        wc == MulTrig(rw, r_cos)
        ws == MulTrig(rw, r_sin)
        hc == MulTrig(rh, r_cos)
        hs == MulTrig(rh, r_sin)
        cx == 2000000 * x
        cy == 2000000 * y
    IN [pt1 |-> <<-wc - hs + cx, ws - hc + cy>>,
        pt2 |-> <<wc - hs + cx, -ws - hc + cy>>,
        pt3 |-> <<wc + hs + cx, -ws + hc + cy>>,
        pt4 |-> <<-wc + hs + cx, ws + hc + cy>>]

\* the four corners, each coordinate through int(): every set of corners the
\* outcomes of int() allow
Corners(angle, x, y, rw, rh) ==
    LET raw == CornersRaw(angle, x, y, rw, rh)
    IN {[pt1 |-> <<x1, y1>>, pt2 |-> <<x2, y2>>,
         pt3 |-> <<x3, y3>>, pt4 |-> <<x4, y4>>] :
            x1 \in IntPx(raw.pt1[1]), y1 \in IntPx(raw.pt1[2]),
            x2 \in IntPx(raw.pt2[1]), y2 \in IntPx(raw.pt2[2]),
            x3 \in IntPx(raw.pt3[1]), y3 \in IntPx(raw.pt3[2]),
            x4 \in IntPx(raw.pt4[1]), y4 \in IntPx(raw.pt4[2])}

\* variant: the extents of the detected box are not put back in their axes
AxisBoxNoSwap(x, y, w, h, swap) ==
    [xmin |-> IntOffset(x, w, -1), xmax |-> IntOffset(x, w, 1),
     ymin |-> IntOffset(y, h, -1), ymax |-> IntOffset(y, h, 1)]

\* the detected box from the floats x, y, w, h, w <= h after the swap:
\* xmin = int(x - w/2) and so on, with the longer extent along x when the
\* fields were swapped
AxisBox(x, y, w, h, swap) ==
    [xmin |-> IntOffset(x, IF swap THEN h ELSE w, -1),
     xmax |-> IntOffset(x, IF swap THEN h ELSE w, 1),
     ymin |-> IntOffset(y, IF swap THEN w ELSE h, -1),
     ymax |-> IntOffset(y, IF swap THEN w ELSE h, 1)]

\* variant: the extents as they come
NormalizeNone(rw, rh) == <<rw, rh>>

\* if rw > rh: rw, rh = rh, rw
Normalize(rw, rh) == IF rw > rh THEN <<rh, rw>> ELSE <<rw, rh>>

\* rw = w*cos - h*sin; rh = (h - rw*sin) / cos, all in millionths
Deconvolve(w, h, cos, sin) ==
    LET rw == MulTrig(w, cos) - MulTrig(h, sin)
        rh == DivTrig(h - MulTrig(rw, sin), cos)
    IN <<rw, rh>>

\* the point handed to check_neareat_coord: the unrotated floats x, y
QueryPoint(x, y, rxy) == <<x, y>>

\* the body of "for i, line in enumerate(txt.readlines())" for one line:
\* the boxes it can draw, one unless int() of a corner has two outcomes.
\* x, y, w, h are whole pixels, err the errors of the floats they stand for
DrawBox(l, rlines) ==
    IF Len(l) < 5 THEN {[raised |-> "IndexError"]}
    ELSE
    LET angle == l[1]
        fx == Px(l[2], ImgShape[2])
        fy == Px(l[3], ImgShape[1])
        fw0 == Px(l[4], ImgShape[2])
        fh0 == Px(l[5], ImgShape[1])
        swap == FloatGreater(fw0, fh0)
        fw == IF swap THEN fh0 ELSE fw0
        fh == IF swap THEN fw0 ELSE fh0
        x == fx.px
        y == fy.px
        w == fw.px
        h == fh.px
        a90 == restrict_angle90(angle)
        a45 == restrict_angle45(angle)
        cos == CosDeg(a45)
        sin == SinDeg(a45)
        head == [raised |-> "none", angle |-> angle, x |-> x, y |-> y,
                 w |-> w, h |-> h,
                 err |-> [x |-> fx.err, y |-> fy.err, w |-> fw.err,
                          h |-> fh.err],
                 a180 |-> restrict_angle180(angle), a90 |-> a90, a45 |-> a45]
                @@ AxisBox(fx, fy, fw, fh, swap)
    IN IF a90 = 0 \/ a90 = 90 THEN {head @@ [branch |-> "axis"]}
       ELSE IF InMatchZone(a90) THEN
           LET Boxes(m, rxy, q) ==
                   IF m.raised # "none" THEN {[raised |-> m.raised]}
                   ELSE LET n == Normalize(1000000 * Px(m.w, ImgShape[2]).px,
                                           1000000 * Px(m.h, ImgShape[1]).px)
                            rw == n[1]
                            rh == n[2]
                            b == head @@ [branch |-> "match", rx |-> rxy[1],
                                          ry |-> rxy[2], query |-> q,
                                          min_value |-> m.min_value,
                                          rw |-> rw, rh |-> rh]
                        IN {b @@ c : c \in Corners(angle, x, y, rw, rh)}
               Match(rxy, q) ==
                   UNION {Boxes(m, rxy, q) :
                             m \in check_neareat_coord(q[1], q[2], RImgShape, rlines)}
               Query(rxy) == Match(rxy, QueryPoint(fx, fy, rxy))
           IN Query(rotate_point(fx, fy, ImgShape[2], ImgShape[1]))
       ELSE LET r == Deconvolve(1000000 * w, 1000000 * h, cos, sin)
                b == head @@ [branch |-> "trig", rw |-> r[1], rh |-> r[2]]
            IN {b @@ c : c \in Corners(angle, x, y, r[1], r[2])}

EvalIdle ==
    /\ pred = <<>>
    /\ pred_post = <<>>
    /\ targets = <<>>
    /\ threshold = 0
    /\ median = FALSE
    /\ result = NoResult

\* one label file of the primary frame is open; the rotated frame's label
\* file of the same name holds rlabels
InitDraw ==
    /\ pc = "drawing"
    /\ rlabels \in CandFiles
    /\ line = <<>>
    /\ box = NoBox
    /\ count = 0
    /\ EvalIdle
    /\ TrainIdle

\* the next line of the label file is read and drawn; an exception ends the
\* script
DrawLine ==
    /\ pc = "drawing"
    /\ count < MaxLines
    /\ \E l \in Lines :
         /\ line' = l
         /\ box' \in DrawBox(l, rlabels)
    /\ count' = count + 1
    /\ pc' = IF box'.raised = "none" THEN "drawing" ELSE "failed"
    /\ UNCHANGED <<rlabels, evalVars, trainVars>>

\* cv2.imwrite after the last line
SaveImage ==
    /\ pc = "drawing"
    /\ pc' = "saved"
    /\ UNCHANGED <<rlabels, line, box, count, evalVars, trainVars>>

NextDraw == DrawLine \/ SaveImage

SpecDraw == InitDraw /\ [][NextDraw]_vars

(***************************************************************************)
(* The ambiguous zone of the draw loop where the doubles decide: label     *)
(* lines on a diagonal of the image, whose projection has a coordinate     *)
(* that is a whole number but for the rounding of the doubles, and label   *)
(* lines at one distance from two lines of the rotated frame's label file. *)
(* One line is drawn in a run.                                             *)
(***************************************************************************)
\* most lines of the rotated frame's label file
MaxMatchCands == 2

\* angle fields of the zone, and centres: on the diagonals, at the centre of
\* the image, off both diagonals, and one of a float that is not whole
MatchAngles == {30, 120}
MatchCentres ==
    {<<10, 30>>, <<10, 10>>, <<30, 30>>, <<20, 20>>, <<20, 10>>, <<11, 20>>,
     <<10, 25>>}
MatchLines == {<<a, xy[1], xy[2], 4, 8>> : a \in MatchAngles, xy \in MatchCentres}
\* lines of the rotated frame's label file: the first two lie at one
\* distance from (100, 50) and their doubles differ, the last two at one
\* distance from (100, 100) and their doubles are one double
MatchCandLines ==
    {<<0, 15, 10, 4, 6>>, <<0, 17, 6, 10, 2>>, <<0, 15, 20, 4, 6>>,
     <<0, 20, 15, 10, 2>>}
MatchCandFiles == UNION {[1 .. n -> MatchCandLines] : n \in 0 .. MaxMatchCands}

InitMatch ==
    /\ pc = "drawing"
    /\ rlabels \in MatchCandFiles
    /\ line = <<>>
    /\ box = NoBox
    /\ count = 0
    /\ EvalIdle
    /\ TrainIdle

DrawMatch ==
    /\ pc = "drawing"
    /\ count = 0
    /\ \E l \in MatchLines :
         /\ line' = l
         /\ box' \in DrawBox(l, rlabels)
    /\ count' = count + 1
    /\ pc' = IF box'.raised = "none" THEN "drawing" ELSE "failed"
    /\ UNCHANGED <<rlabels, evalVars, trainVars>>

NextMatch == DrawMatch \/ SaveImage

SpecMatch == InitMatch /\ [][NextMatch]_vars

(***************************************************************************)
(* The draw loop over label lines of any angle field: int() of the field   *)
(* takes every integer.  The lines differ in the angle and in the order of *)
(* w and h: taller than wide, wider than tall, and square.                 *)
(***************************************************************************)
\* angle fields, inside and on both sides of 0 .. 359
AngleFields == -45 .. 404
\* most lines of the label file in the runs of the deconvolution
MaxAngleLines == 1
\* the w and h fields of the label line
AngleExtents == {<<4, 8>>, <<8, 4>>, <<4, 4>>}
\* the rotated frame's label file: one line, taller than wide or wider than
\* tall
AngleCandFiles == {<< <<0, 15, 15, 4, 6>> >>, << <<0, 15, 15, 10, 2>> >>}

InitAngle ==
    /\ pc = "drawing"
    /\ rlabels \in AngleCandFiles
    /\ line = <<>>
    /\ box = NoBox
    /\ count = 0
    /\ EvalIdle
    /\ TrainIdle

DrawAngle ==
    /\ pc = "drawing"
    /\ count = 0
    /\ \E a \in AngleFields, wh \in AngleExtents :
         /\ line' = <<a, 20, 20, wh[1], wh[2]>>
         /\ box' \in DrawBox(line', rlabels)
    /\ count' = count + 1
    /\ pc' = IF box'.raised = "none" THEN "drawing" ELSE "failed"
    /\ UNCHANGED <<rlabels, evalVars, trainVars>>

NextAngle == DrawAngle \/ SaveImage

SpecAngle == InitAngle /\ [][NextAngle]_vars

(***************************************************************************)
(* The trigonometric branch of the draw loop on label lines whose w and h  *)
(* are the axis box of a rectangle tw x th turned by the wedge angle:      *)
(* w = tw*cos + th*sin and h = tw*sin + th*cos, in millionths of a pixel.  *)
(***************************************************************************)
\* sides of the rectangles, in pixels
TrueExtents == {10, 20, 30, 40}
\* angle fields of 0 .. 90 that reach the trigonometric branch
DeconvAngles ==
    {a \in 0 .. 90 : /\ restrict_angle90(a) # 0
                     /\ restrict_angle90(a) # 90
                     /\ ~InMatchZone(restrict_angle90(a))}

InitDeconv ==
    /\ pc = "drawing"
    /\ rlabels = <<>>
    /\ line = <<>>
    /\ box = NoBox
    /\ count = 0
    /\ EvalIdle
    /\ TrainIdle

DrawTurned ==
    /\ pc = "drawing"
    /\ count < MaxAngleLines
    /\ \E a \in DeconvAngles, tw \in TrueExtents, th \in TrueExtents :
         /\ tw <= th
         /\ LET a45 == restrict_angle45(a)
                cos == CosDeg(a45)
                sin == SinDeg(a45)
                w == MulTrig(1000000 * tw, cos) + MulTrig(1000000 * th, sin)
                h == MulTrig(1000000 * tw, sin) + MulTrig(1000000 * th, cos)
                r == Deconvolve(w, h, cos, sin)
            IN box' = [raised |-> "none", branch |-> "trig", angle |-> a,
                       a45 |-> a45, tw |-> tw, th |-> th, w |-> w, h |-> h,
                       rw |-> r[1], rh |-> r[2]]
    /\ count' = count + 1
    /\ UNCHANGED <<pc, rlabels, line, evalVars, trainVars>>

NextDeconv == DrawTurned \/ SaveImage

SpecDeconv == InitDeconv /\ [][NextDeconv]_vars

(***************************************************************************)
(* train(): the epoch loop on the main process (classify/train.py)         *)
(***************************************************************************)
\* most epochs of one training run
MaxEpochs == 3
\* most images of a validation set
ValImages == 6
\* a top-1 accuracy is a whole number of the n validation images out of n,
\* and is kept here as that number
Accuracies(n) == 0 .. n

\* "if fitness > best_fitness: best_fitness = fitness"
BestFitnessLatest(f, best) == f
BestFitness(f, best) == IF f > best THEN f ELSE best

\* the files one epoch writes: last.pt when the epoch saves at all, best.pt
\* after it when the epoch's fitness is the best fitness
Checkpoints(ns, final_epoch, f, best) ==
    IF (~ns) \/ final_epoch
    THEN {"last"} \cup (IF best = f THEN {"best"} ELSE {})
    ELSE {}

InitTrain ==
    /\ pc = "epoch"
    /\ epochs \in 1 .. MaxEpochs
    /\ valset \in 1 .. ValImages
    /\ nosave \in BOOLEAN
    /\ epoch = 0
    /\ fitness = 0
    /\ best_fitness = 0
    /\ top1s = <<>>
    /\ saved = {}
    /\ EvalIdle
    /\ DrawIdle

\* the batches of one epoch: fitness starts at 0.0 and, with the last batch,
\* becomes the top-1 accuracy validate.run() returns for the EMA model.
\* validate.run() ends with the plots of its scores; over a validation set
\* too small for them it raises and the training run ends there, before the
\* fitness is assigned and before anything is saved
TrainEpoch ==
    /\ pc = "epoch"
    /\ epoch < epochs
    /\ IF Plot_Prob_Distribution(valset) = "none"
       THEN /\ \E top1 \in Accuracies(valset) :
                 /\ fitness' = top1
                 /\ top1s' = Append(top1s, top1)
            /\ pc' = "validated"
       ELSE /\ fitness' = 0
            /\ top1s' = top1s
            /\ pc' = "failed"
    /\ UNCHANGED <<epochs, valset, nosave, epoch, best_fitness, saved,
                   evalVars, drawVars>>

\* the end of the epoch: the best fitness is updated, then the checkpoint is
\* written
EndEpoch ==
    /\ pc = "validated"
    /\ best_fitness' = BestFitness(fitness, best_fitness)
    /\ saved' = Checkpoints(nosave, epoch + 1 = epochs, fitness,
                            best_fitness')
    /\ epoch' = epoch + 1
    /\ pc' = IF epoch' = epochs THEN "trained" ELSE "epoch"
    /\ UNCHANGED <<epochs, valset, nosave, fitness, top1s, evalVars,
                   drawVars>>

NextTrain == TrainEpoch \/ EndEpoch

SpecTrain == InitTrain /\ [][NextTrain]_vars

(***************************************************************************)
(* Reference notions the statements below are measured against             *)
(***************************************************************************)
Min2(x, y) == IF x <= y THEN x ELSE y

\* the shorter arc between two angles of the 360-degree circle
CircularDistance(a, b) == Min2(Abs(a - b), 360 - Abs(a - b))

Returned == pc \in {"done", "returned"} /\ result.raised = "none"

NumSamples == Len(targets)

\* samples whose first ranked candidate lies within t of the ground truth
Top1Hits(t) ==
    {i \in 1 .. NumSamples : CircularDistance(pred[i][1], targets[i]) <= t}

\* samples with at least one ranked candidate within t of the ground truth
TopKHits(t) ==
    {i \in 1 .. NumSamples :
        \E k \in 1 .. Len(pred[i]) : CircularDistance(pred[i][k], targets[i]) <= t}

(***************************************************************************)
(* C1. For every predicted angle a and true angle b in [0,360) the bias    *)
(* the evaluator computes is min(|a-b|, 360-|a-b|) and lies in [0,180].    *)
(***************************************************************************)
C1_BiasIsCircularDistance ==
    Returned =>
        \A i \in 1 .. NumSamples : \A k \in 1 .. Len(pred[i]) :
            /\ result.bias_topk[i][k] = CircularDistance(pred[i][k], targets[i])
            /\ result.bias_topk[i][k] \in 0 .. 180

\* a pair whose plain difference exceeds 180, so the wrap is taken
C1_Witness ==
    /\ Returned
    /\ pred = << <<350>> >>
    /\ targets = <<15>>
    /\ result.bias_topk = << <<25>> >>

(***************************************************************************)
(* C2. The circular distance is symmetric, zero on equal angles and 180 on *)
(* opposite angles.                                                        *)
(***************************************************************************)
\* the bias the evaluator returns for the one-sample batch (a, b)
EvaluatedBias(a, b) ==
    CalculateTopk(<< <<a>> >>, << <<a>> >>, <<b>>, 0, FALSE).bias_topk[1][1]

C2_SymmetricAnchored ==
    (Returned /\ NumSamples = 1) =>
        LET a == pred[1][1]
            b == targets[1]
            d == result.bias_topk[1][1]
        IN /\ d = EvaluatedBias(b, a)
           /\ (a = b => d = 0)
           /\ (b = (a + 180) % 360 => d = 180)

\* an opposite pair that crosses the 0/360 boundary
C2_Witness ==
    /\ Returned
    /\ pred = << <<200>> >>
    /\ targets = <<20>>
    /\ result.bias_topk = << <<180>> >>

(***************************************************************************)
(* C3. For a non-empty batch the returned top-1 accuracy is the fraction   *)
(* of samples whose first candidate is within the threshold, and the       *)
(* top-K accuracy the fraction with at least one candidate within it; for  *)
(* ranked [10,190,..] against 15, top1 is 1.0 at 10 and 0.0 at 2.          *)
(***************************************************************************)
C3_TopAccuracy ==
    (pc = "done" /\ result.raised = "none") =>
        /\ result.top1 =
             [num |-> Cardinality(Top1Hits(threshold)), den |-> NumSamples]
        /\ result.top5 =
             [num |-> Cardinality(TopKHits(threshold)), den |-> NumSamples]
        /\ (NumSamples = 1 /\ pred[1][1] = 10 /\ targets[1] = 15) =>
              /\ (threshold = 10 => IsOne(result.top1))
              /\ (threshold = 2 => IsZero(result.top1))

\* the scenario of the claim, with a second sample that only its second
\* candidate saves
C3_Witness ==
    /\ pc = "done"
    /\ threshold = 10
    /\ NumSamples = 2
    /\ pred[1][1] = 10 /\ pred[1][2] = 190 /\ targets[1] = 15
    /\ pred[2][1] = 190 /\ pred[2][2] = 10 /\ targets[2] = 15
    /\ result.top1 = [num |-> 1, den |-> 2]
    /\ result.top5 = [num |-> 2, den |-> 2]

(***************************************************************************)
(* C4. The threshold sweep never decreases: for sweep thresholds t1 < t2,  *)
(* top1(t1) <= top1(t2) and topK(t1) <= topK(t2).                          *)
(***************************************************************************)
\* Stated on neighbouring thresholds, and on each threshold against the last
\* one; <= on fractions of one denominator is transitive, which gives the
\* statement for every pair t1 < t2.
C4_SweepMonotone ==
    (pc = "done" /\ result.raised = "none") =>
        LET sweep == result.topk_list
            last == Len(sweep)
        IN \A i \in DOMAIN sweep : \A j \in {i + 1, last} :
              (i < j /\ j <= last) =>
                  /\ LeqAcc(sweep[i][1], sweep[j][1])
                  /\ LeqAcc(sweep[i][2], sweep[j][2])

\* a sweep that starts at 0 and ends at 1 for both accuracies
C4_Witness ==
    /\ pc = "done"
    /\ result.raised = "none"
    /\ threshold >= 10
    /\ IsZero(result.topk_list[1][1])
    /\ IsZero(result.topk_list[1][2])
    /\ IsOne(result.topk_list[threshold + 1][1])
    /\ IsOne(result.topk_list[threshold + 1][2])

(***************************************************************************)
(* C5. At threshold 180 the top-1 accuracy of every non-empty batch is 1.0 *)
(* and no sample is listed as wrong.                                       *)
(***************************************************************************)
C5_AllCorrectAt180 ==
    (pc = "done" /\ result.raised = "none" /\ threshold = 180) =>
        /\ IsOne(result.top1)
        /\ result.wrong_preds = <<>>

\* a batch holding an opposite pair and a pair across the 0/360 boundary
C5_Witness ==
    /\ pc = "done"
    /\ threshold = 180
    /\ NumSamples = 2
    /\ pred[1][1] = 190 /\ targets[1] = 10
    /\ pred[2][1] = 350 /\ targets[2] = 15
    /\ result.bias_ori = <<180, 25>>
    /\ IsOne(result.top1)

(***************************************************************************)
(* C6. As claimed: a threshold above 180 is clamped to 180, so the         *)
(* evaluator returns the top1, topK, wrong samples and sweep it returns    *)
(* for threshold 180.                                                      *)
(***************************************************************************)
ResultAt180 == CalculateTopk(pred, pred_post, targets, 180, median)

C6_ClampedTo180 ==
    (pc = "done" /\ result.raised = "none" /\ threshold > 180) =>
        LET at180 == ResultAt180
        IN /\ result.top1 = at180.top1
           /\ result.top5 = at180.top5
           /\ result.wrong_preds = at180.wrong_preds
           /\ result.topk_list = at180.topk_list

(***************************************************************************)
(* C6, amended. For a threshold t above 180 the evaluator returns the      *)
(* top1, topK and wrong samples of threshold 180, and a sweep of t+1       *)
(* entries: the 181 entries of the sweep of threshold 180 followed by      *)
(* entries (1.0, 1.0) for the thresholds 181..t.                           *)
(***************************************************************************)
C6_SweepRunsPast180 ==
    (pc = "done" /\ result.raised = "none" /\ threshold > 180) =>
        LET at180 == ResultAt180
        IN /\ result.top1 = at180.top1
           /\ result.top5 = at180.top5
           /\ result.wrong_preds = at180.wrong_preds
           /\ Len(result.topk_list) = threshold + 1
           /\ SubSeq(result.topk_list, 1, 181) = at180.topk_list
           /\ \A j \in 182 .. threshold + 1 :
                 IsOne(result.topk_list[j][1]) /\ IsOne(result.topk_list[j][2])

C6_Witness ==
    /\ pc = "done"
    /\ result.raised = "none"
    /\ threshold = 181
    /\ NumSamples = 2
    /\ result.bias_ori = <<180, 25>>
    /\ Len(result.topk_list) = 182
    /\ IsOne(result.top1)

(***************************************************************************)
(* C7. As claimed: evaluating an empty batch fails with an error instead   *)
(* of returning accuracy values.                                           *)
(***************************************************************************)
C7_EmptyBatchFails ==
    (pc = "returned" /\ pred = <<>> /\ targets = <<>>) => result.raised # "none"

(***************************************************************************)
(* C8. As claimed: evaluating with a number of prediction rows different   *)
(* from the number of ground truths fails with an error.                   *)
(***************************************************************************)
C8_ShapeMismatchFails ==
    (pc = "returned" /\ Len(pred) # Len(targets)) => result.raised # "none"

(***************************************************************************)
(* C9. As claimed: the matcher returns the candidate at the least squared  *)
(* distance from the detection's position projected into the rotated       *)
(* frame, the output of rotate_point.                                      *)
(***************************************************************************)
\* squared distance, in 1/40 pixel units, from the whole-pixel point q to the
\* centre of a label line of the rotated frame
Dist2(q, cand) ==
    LET dx == 40 * q[1] - cand[2] * RImgShape[2]
        dy == 40 * q[2] - cand[3] * RImgShape[1]
    IN dx * dx + dy * dy

Matched == pc \in {"drawing", "saved"} /\ box.raised = "none" /\ box.branch = "match"

\* the whole pixels of the point the matcher was handed
QueryPx == <<box.query[1].px, box.query[2].px>>

C9_MatchesProjectedPoint ==
    Matched =>
        \A i \in DOMAIN rlabels :
            Dist2(<<box.rx, box.ry>>, rlabels[box.min_value + 1])
                <= Dist2(<<box.rx, box.ry>>, rlabels[i])

(***************************************************************************)
(* C10. The candidate returned is at the least squared distance from the   *)
(* point the matcher is given, the distance being the double the matcher   *)
(* computes from the float fields of the candidate; among the candidates   *)
(* at that least distance the first one of the candidate list is returned, *)
(* and its extents are the ones drawn.  The match is thereby a function of *)
(* the inputs.                                                             *)
(***************************************************************************)
C10_FirstNearestWins ==
    Matched =>
        LET won == box.min_value + 1
        IN /\ won \in DOMAIN rlabels
           /\ \E dis_list \in DisList(box.query[1], box.query[2], RImgShape, rlabels) :
                 \A i \in DOMAIN rlabels :
                    /\ ~FloatLess(dis_list[i], dis_list[won])
                    /\ i < won => FloatLess(dis_list[won], dis_list[i])
           /\ box.rw = 1000000 * Min2(Px(rlabels[won][4], ImgShape[2]).px,
                                      Px(rlabels[won][5], ImgShape[1]).px)
           /\ box.rh = 1000000 * (Px(rlabels[won][4], ImgShape[2]).px
                                  + Px(rlabels[won][5], ImgShape[1]).px)
                       - box.rw

\* two candidates of different extents whose distances from the query point
\* are one double: their centres (105.75, 141) and (141, 105.75) mirror each
\* other about the point (100, 100)
C10_Witness ==
    /\ Matched
    /\ rlabels = << <<0, 15, 20, 4, 6>>, <<0, 20, 15, 10, 2>> >>
    /\ QueryPx = <<100, 100>>
    /\ \A dis_list \in DisList(box.query[1], box.query[2], RImgShape, rlabels) :
          dis_list[1] = dis_list[2]
    /\ box.min_value = 0
    /\ box.rw = 20000000
    /\ box.rh = 30000000

(***************************************************************************)
(* C11. A line of the ambiguous zone drawn against a rotated-frame label   *)
(* file of no lines ends the script with the matcher's error; no box with  *)
(* a width and a height is made of it.                                     *)
(***************************************************************************)
\* the last line read has its five fields and its wedge angle in the zone
\* where the matcher is called
LineInMatchZone ==
    /\ line # <<>>
    /\ Len(line) >= 5
    /\ 2 * restrict_angle90(line[1]) > 45
    /\ 2 * restrict_angle90(line[1]) < 135

C11_EmptyCandidatesFail ==
    (LineInMatchZone /\ rlabels = <<>>) =>
        /\ box = [raised |-> "ValueError"]
        /\ pc = "failed"

C11_Witness ==
    /\ LineInMatchZone
    /\ rlabels = <<>>
    /\ line = <<45, 20, 20, 4, 8>>
    /\ box.raised = "ValueError"
    /\ pc = "failed"

(***************************************************************************)
(* C12. As claimed: a label line of fewer or of more than five fields is   *)
(* rejected with an error and nothing is drawn for it.                     *)
(***************************************************************************)
C12_RejectsWrongFieldCount ==
    (line # <<>> /\ Len(line) # 5) =>
        /\ box.raised \notin {"none", "pending"}
        /\ pc = "failed"

(***************************************************************************)
(* C13. As claimed: a label line whose angle field is an integer outside   *)
(* 0 .. 359 is rejected with an error and reaches no wedge reduction.      *)
(***************************************************************************)
C13_RejectsAngleOutOfRange ==
    (line # <<>> /\ line[1] \notin 0 .. 359) =>
        /\ box.raised \notin {"none", "pending"}
        /\ pc = "failed"

(***************************************************************************)
(* C14. A line whose wedge angle a90 is 0 or 90 gets the box of its own    *)
(* w and h and nothing else: the corners (xmin, ymin), (xmin, ymax),       *)
(* (xmax, ymax), (xmax, ymin) span the width w along x and the height h    *)
(* along y around (x, y), up to the truncation of the corners to whole     *)
(* pixels (the span and the centre are within a pixel), and no corrected   *)
(* extent or rotated corner is computed.  Where the floats x, y, w, h are  *)
(* whole the span is w and h to the pixel and the centre is within half a  *)
(* pixel.                                                                  *)
(***************************************************************************)
FloatsWhole == \A f \in DOMAIN box.err : box.err[f] = 0

C14_AxisAlignedIdentity ==
    (pc \in {"drawing", "saved"} /\ box.raised = "none" /\ box.a90 \in {0, 90}) =>
        /\ box.branch = "axis"
        /\ DOMAIN box \cap {"rw", "rh", "pt1", "pt2", "pt3", "pt4"} = {}
        /\ box.xmax - box.xmin - Px(line[4], ImgShape[2]).px \in -1 .. 1
        /\ box.ymax - box.ymin - Px(line[5], ImgShape[1]).px \in -1 .. 1
        /\ box.xmin + box.xmax - 2 * Px(line[2], ImgShape[2]).px \in -2 .. 2
        /\ box.ymin + box.ymax - 2 * Px(line[3], ImgShape[1]).px \in -2 .. 2
        /\ FloatsWhole =>
              /\ box.xmax - box.xmin = Px(line[4], ImgShape[2]).px
              /\ box.ymax - box.ymin = Px(line[5], ImgShape[1]).px
              /\ box.xmin + box.xmax - 2 * Px(line[2], ImgShape[2]).px \in -1 .. 1
              /\ box.ymin + box.ymax - 2 * Px(line[3], ImgShape[1]).px \in -1 .. 1

\* angle 0, w = 10, h = 20 at (100, 100)
C14_Witness ==
    /\ pc \in {"drawing", "saved"}
    /\ line = <<0, 20, 20, 2, 4>>
    /\ box.branch = "axis"
    /\ box.xmin = 95 /\ box.xmax = 105
    /\ box.ymin = 90 /\ box.ymax = 110

(***************************************************************************)
(* C15. As claimed: in the trigonometric branch, from the axis box of a    *)
(* rectangle tw <= th turned by the wedge angle, rw = w*cos - h*sin and    *)
(* rh = (h - rw*sin)/cos give back tw and th, to within half a pixel.      *)
(***************************************************************************)
C15_DeconvolutionRecovers ==
    (box.raised = "none" /\ "tw" \in DOMAIN box) =>
        /\ Abs(box.rw - 1000000 * box.tw) <= 1000000 \div 2
        /\ Abs(box.rh - 1000000 * box.th) <= 1000000 \div 2

(***************************************************************************)
(* C16. For an angle field of 0 .. 359 and a label line taller than wide,   *)
(* wider than tall or square, w <= h after the swap and the extents the    *)
(* corners are built from satisfy rw <= rh, in the branch that matches a   *)
(* detection of the rotated frame and in the trigonometric branch.         *)
(***************************************************************************)
C16_WidthAtMostHeight ==
    (/\ pc \in {"drawing", "saved"}
     /\ box.raised = "none"
     /\ box.angle \in 0 .. 359
     /\ box.branch \in {"match", "trig"}) =>
        /\ box.w <= box.h
        /\ box.rw <= box.rh

\* the label line and the matched line are both wider than tall: the line
\* has w = 0.2, h = 0.1 and the matched line w = 0.25, h = 0.05
C16_Witness ==
    /\ pc \in {"drawing", "saved"}
    /\ line = <<45, 20, 20, 8, 4>>
    /\ rlabels = << <<0, 15, 15, 10, 2>> >>
    /\ box.w = 20
    /\ box.h = 40
    /\ box.raised = "none"
    /\ box.branch = "match"
    /\ box.angle = 45
    /\ box.rw = 10000000
    /\ box.rh = 50000000

(***************************************************************************)
(* C17. As claimed: the line of angle 30 at (100, 100) with w = 20 and     *)
(* h = 40 has a90 = 30 and is reconstructed by the trigonometric branch,   *)
(* with a width of about 18 and a height of about 38.                      *)
(***************************************************************************)
Line30 == <<30, 20, 20, 4, 8>>

C17_Angle30TakesTrigBranch ==
    (line = Line30 /\ box.raised = "none") =>
        /\ box.a90 = 30
        /\ box.branch = "trig"
        /\ Abs(box.rw - 18000000) <= 1000000
        /\ Abs(box.rh - 38000000) <= 1000000

(***************************************************************************)
(* C17, amended. That line has a90 = 30, inside (22.5, 67.5): it is        *)
(* reconstructed by the branch that matches a detection of the rotated     *)
(* frame, never by the trigonometric one; its extents are read from the    *)
(* matched line, and with no line to match the matcher's error ends the    *)
(* script.                                                                 *)
(***************************************************************************)
C17_Angle30TakesMatchBranch ==
    line = Line30 =>
        IF rlabels = <<>>
        THEN box = [raised |-> "ValueError"] /\ pc = "failed"
        ELSE /\ box.raised = "none"
             /\ box.a90 = 30
             /\ 2 * box.a90 > 45 /\ 2 * box.a90 < 135
             /\ box.branch = "match"
             /\ box.min_value + 1 \in DOMAIN rlabels

C17_Witness ==
    /\ line = Line30
    /\ rlabels = << <<0, 15, 15, 4, 6>> >>
    /\ box.raised = "none"
    /\ box.a90 = 30
    /\ box.branch = "match"
    /\ box.min_value = 0

(***************************************************************************)
(* C18. For every angle field of 0 .. 359 the wedge reduction gives        *)
(* a180 = angle mod 180, a90 = a180 if a180 <= 90 and a180 - 90 otherwise, *)
(* a45 = a90 if a90 <= 45 and 90 - a90 otherwise; 200 reduces to           *)
(* (20, 20, 20) and 300 to (120, 30, 30).                                  *)
(***************************************************************************)
C18_WedgeReduction ==
    (line # <<>> /\ line[1] \in 0 .. 359) =>
        /\ box.raised = "none"
        /\ box.angle = line[1]
        /\ box.a180 = line[1] % 180
        /\ box.a90 = (IF box.a180 <= 90 THEN box.a180 ELSE box.a180 - 90)
        /\ box.a45 = (IF box.a90 <= 45 THEN box.a90 ELSE 90 - box.a90)
        /\ line[1] = 200 => <<box.a180, box.a90, box.a45>> = <<20, 20, 20>>
        /\ line[1] = 300 => <<box.a180, box.a90, box.a45>> = <<120, 30, 30>>

C18_Witness ==
    /\ line # <<>>
    /\ line[1] = 300
    /\ box.raised = "none"
    /\ box.a180 = 120
    /\ box.a90 = 30
    /\ box.a45 = 30

(***************************************************************************)
(* C19. As claimed: whatever integer the angle field of a line that is     *)
(* drawn holds, the wedge angle a45 the deconvolution divides by the       *)
(* cosine of lies in 0 .. 45.                                              *)
(***************************************************************************)
C19_WedgeWithin45 ==
    (line # <<>> /\ box.raised = "none" /\ box.branch = "trig") =>
        box.a45 \in 0 .. 45

(***************************************************************************)
(* C20. As claimed: in the zone 22.5 < a90 < 67.5 the extents are the      *)
(* matched line's normalized w and h multiplied by the size of the rotated *)
(* frame, the smaller one first.                                           *)
(***************************************************************************)
C20_MatchedExtentsInRotatedPixels ==
    Matched =>
        LET c == rlabels[box.min_value + 1]
            \* field / 40 * size, in millionths of a pixel
            ew == c[4] * RImgShape[2] * 25000
            eh == c[5] * RImgShape[1] * 25000
        IN /\ box.rw = Min2(ew, eh)
           /\ box.rh = ew + eh - Min2(ew, eh)

(***************************************************************************)
(* C21. As claimed: the projection at 45 degrees of a point of the W x H   *)
(* frame is x' = (x - W/2) cos + (y - H/2) sin + W/2 + (R - W)/2, and y'   *)
(* alike, with R = round((W + H) cos 45), R also being the side of the     *)
(* rotated image.                                                          *)
(***************************************************************************)
\* (W + H) cos 45 to the nearest whole number, and with its fraction dropped
SideRounded == ((ImgShape[2] + ImgShape[1]) * 707107 + 500000) \div 1000000
SideTruncated == ((ImgShape[2] + ImgShape[1]) * 707107) \div 1000000

\* the projection onto a frame of side R, its fraction dropped; twice the
\* value is (2x - W) cos + (2y - H) sin + R
Projected(x, y, R) ==
    LET W == ImgShape[2]
        H == ImgShape[1]
        u == (2 * x - W) * 707107 + (2 * y - H) * 707107 + R * 1000000
        v == (2 * y - H) * 707107 - (2 * x - W) * 707107 + R * 1000000
    IN <<IF u >= 0 THEN u \div 2000000 ELSE -((-u) \div 2000000),
         IF v >= 0 THEN v \div 2000000 ELSE -((-v) \div 2000000)>>

C21_ProjectionRoundedSide ==
    Matched =>
        /\ RImgShape = <<SideRounded, SideRounded>>
        /\ <<box.rx, box.ry>> = Projected(box.x, box.y, SideRounded)

(***************************************************************************)
(* C21, amended. The side is R = int((W + H) cos 45), the fraction dropped *)
(* and not rounded: 282 for 200 x 200.  The projection is the stated       *)
(* formula with that R, each coordinate through int(); R is the side of    *)
(* the rotated image, and the centre (W/2, H/2) goes to (R/2, R/2).        *)
(***************************************************************************)
C21_ProjectionTruncatedSide ==
    Matched =>
        /\ SideTruncated = 282
        /\ RImgShape = <<SideTruncated, SideTruncated>>
        /\ <<box.rx, box.ry>> = Projected(box.x, box.y, SideTruncated)
        /\ (box.x = 100 /\ box.y = 100) => <<box.rx, box.ry>> = <<141, 141>>

\* (50, 150) goes to (141, 211); a side of 283 would give (141, 212)
C21_Witness ==
    /\ Matched
    /\ box.x = 50 /\ box.y = 150
    /\ box.rx = 141 /\ box.ry = 211
    /\ Projected(50, 150, SideRounded) = <<141, 212>>

(***************************************************************************)
(* C22. Before int() the four corners are a rectangle about the centre of  *)
(* the detection: pt1 + pt3 = pt2 + pt4 = 2 (x, y); the sides pt1 pt2 and  *)
(* pt1 pt4 are perpendicular, of lengths rw and rh, and they are the       *)
(* offsets (rw, 0) and (0, rh) turned by angle + 90 degrees.  The emitted  *)
(* corners are these points with the fraction of a pixel dropped.          *)
(***************************************************************************)
HasCorners ==
    /\ pc \in {"drawing", "saved"}
    /\ box.raised = "none"
    /\ box.branch \in {"match", "trig"}

C22_CornersFormRectangle ==
    HasCorners =>
        LET raw == CornersRaw(box.angle, box.x, box.y, box.rw, box.rh)
            \* the sides from pt1, in hundredths of a pixel
            ax == (raw.pt2[1] - raw.pt1[1]) \div 20000
            ay == (raw.pt2[2] - raw.pt1[2]) \div 20000
            bx == (raw.pt4[1] - raw.pt1[1]) \div 20000
            by == (raw.pt4[2] - raw.pt1[2]) \div 20000
            rw == box.rw \div 10000
            rh == box.rh \div 10000
            slack == Abs(ax) + Abs(ay) + Abs(bx) + Abs(by) + 4
        IN /\ raw.pt1[1] + raw.pt3[1] = 4000000 * box.x
           /\ raw.pt1[2] + raw.pt3[2] = 4000000 * box.y
           /\ raw.pt2[1] + raw.pt4[1] = 4000000 * box.x
           /\ raw.pt2[2] + raw.pt4[2] = 4000000 * box.y
           /\ Abs(ax * bx + ay * by) <= slack
           /\ Abs(ax * ax + ay * ay - rw * rw) <= 2 * (Abs(ax) + Abs(ay) + Abs(rw)) + 50
           /\ Abs(bx * bx + by * by - rh * rh) <= 2 * (Abs(bx) + Abs(by) + Abs(rh)) + 50
           /\ raw.pt2[1] - raw.pt1[1] = 2 * MulTrig(box.rw, CosDeg(box.angle + 90))
           /\ raw.pt2[2] - raw.pt1[2] = -2 * MulTrig(box.rw, SinDeg(box.angle + 90))
           /\ raw.pt4[1] - raw.pt1[1] = 2 * MulTrig(box.rh, SinDeg(box.angle + 90))
           /\ raw.pt4[2] - raw.pt1[2] = 2 * MulTrig(box.rh, CosDeg(box.angle + 90))
           /\ \A k \in 1 .. 2 :
                 /\ Abs(2000000 * box.pt1[k] - raw.pt1[k]) <= 2000000 + 600
                 /\ Abs(2000000 * box.pt2[k] - raw.pt2[k]) <= 2000000 + 600
                 /\ Abs(2000000 * box.pt3[k] - raw.pt3[k]) <= 2000000 + 600
                 /\ Abs(2000000 * box.pt4[k] - raw.pt4[k]) <= 2000000 + 600

\* angle 30 at (100, 100) with matched extents 20 x 30
C22_Witness ==
    /\ HasCorners
    /\ box.angle = 30
    /\ box.rw = 20000000 /\ box.rh = 30000000
    /\ box.pt1 = <<92, 116>> /\ box.pt2 = <<82, 98>>
    /\ box.pt3 = <<107, 83>> /\ box.pt4 = <<117, 101>>

(***************************************************************************)
(* C23. The three counters look at the top-1 bias alone and split the      *)
(* batch: a sample is counted far iff that bias is >= 170, near iff it is  *)
(* <= 5, mid otherwise; each sample is in exactly one of them and the      *)
(* three counts add up to the number of samples.                           *)
(***************************************************************************)
Top1Distance(i) == CircularDistance(pred[i][1], targets[i])
FarSamples == {i \in 1 .. NumSamples : Top1Distance(i) >= 170}
NearSamples == {i \in 1 .. NumSamples : Top1Distance(i) <= 5}
MidSamples == (1 .. NumSamples) \ (FarSamples \cup NearSamples)

C23_BucketsPartition ==
    (Returned /\ Len(pred) = NumSamples) =>
        /\ result.large_bias_count = Cardinality(FarSamples)
        /\ result.samll_bias_count = Cardinality(NearSamples)
        /\ result.correct_bias_count = Cardinality(MidSamples)
        /\ FarSamples \cap NearSamples = {}
        /\ result.large_bias_count + result.samll_bias_count
              + result.correct_bias_count = NumSamples

\* one sample near, with a bias of exactly 5, and one far
C23_Witness ==
    /\ Returned
    /\ NumSamples = 2
    /\ pred[1][1] = 10 /\ targets[1] = 15
    /\ pred[2][1] = 190 /\ targets[2] = 15
    /\ result.samll_bias_count = 1
    /\ result.large_bias_count = 1
    /\ result.correct_bias_count = 0

(***************************************************************************)
(* C24. The wrong-sample list holds, in the order of the samples, one pair *)
(* (first predicted angle, true angle) for each sample whose top-1         *)
(* circular distance is strictly above the threshold, and nothing else;    *)
(* the first component is the predicted angle itself, not its bias.        *)
(***************************************************************************)
WrongSamples == {i \in 1 .. NumSamples : Top1Distance(i) > threshold}
\* the j-th wrong sample
NthWrong(j) ==
    CHOOSE i \in WrongSamples : Cardinality({k \in WrongSamples : k < i}) = j - 1

C24_WrongListExact ==
    (Returned /\ Len(pred) = NumSamples) =>
        /\ Len(result.wrong_preds) = Cardinality(WrongSamples)
        /\ \A j \in 1 .. Len(result.wrong_preds) :
              result.wrong_preds[j] = <<pred[NthWrong(j)][1], targets[NthWrong(j)]>>

\* the first of two samples is listed, the second, with a bias of 5, is not
C24_Witness ==
    /\ Returned
    /\ threshold = 10
    /\ NumSamples = 2
    /\ pred[1][1] = 190 /\ targets[1] = 15
    /\ pred[2][1] = 10 /\ targets[2] = 15
    /\ result.wrong_preds = << <<190, 15>> >>
    /\ result.bias_ori = <<175, 5>>

(***************************************************************************)
(* C25. The post-processed ranking and the post_process flag leave the     *)
(* primary numbers alone: top1, topK, the sweep, the wrong samples and the *)
(* three counts are those of the same raw ranking, true angles and         *)
(* threshold evaluated with the raw ranking as its own post-processed      *)
(* ranking and the flag off.                                               *)
(***************************************************************************)
Primary(r) ==
    <<r.top1, r.top5, r.topk_list, r.wrong_preds,
      r.large_bias_count, r.samll_bias_count, r.correct_bias_count>>

C25_PostProcessingInert ==
    Returned =>
        Primary(result) =
            Primary(CalculateTopk(pred, pred, targets, threshold, FALSE))

\* post-processing on, and a post-processed ranking whose first candidate is
\* far where the raw one is near
C25_Witness ==
    /\ Returned
    /\ median
    /\ threshold = 10
    /\ pred = << <<10, 190>> >>
    /\ pred_post = << <<190, 10>> >>
    /\ targets = <<15>>
    /\ IsOne(result.top1)
    /\ result.wrong_preds = <<>>
    /\ result.bias_median # "None"

(***************************************************************************)
(* C26. The evaluation does not depend on the order of the samples: with   *)
(* the prediction rows and the true angles permuted alike, top1, topK,     *)
(* every entry of the sweep and the three counts are unchanged, and the    *)
(* same samples are listed as wrong, in whatever order.                    *)
(***************************************************************************)
Orderings(n) ==
    {f \in [1 .. n -> 1 .. n] : \A i, j \in 1 .. n : i # j => f[i] # f[j]}

Permuted(seq, f) == [i \in 1 .. Len(seq) |-> seq[f[i]]]

Occurrences(seq, v) == Cardinality({j \in DOMAIN seq : seq[j] = v})

SameEntries(s1, s2) ==
    /\ Len(s1) = Len(s2)
    /\ \A j \in DOMAIN s1 : Occurrences(s1, s1[j]) = Occurrences(s2, s1[j])

C26_OrderIndependent ==
    (Returned /\ Len(pred) = NumSamples /\ Len(pred_post) = NumSamples) =>
        \A f \in Orderings(NumSamples) :
            LET r == CalculateTopk(Permuted(pred, f), Permuted(pred_post, f),
                                   Permuted(targets, f), threshold, median)
            IN /\ r.raised = "none"
               /\ r.top1 = result.top1
               /\ r.top5 = result.top5
               /\ r.topk_list = result.topk_list
               /\ r.large_bias_count = result.large_bias_count
               /\ r.samll_bias_count = result.samll_bias_count
               /\ r.correct_bias_count = result.correct_bias_count
               /\ SameEntries(r.wrong_preds, result.wrong_preds)

\* two samples of different true angles, the first wrong and the second
\* right, so that the swap changes the rows but not the numbers
C26_Witness ==
    /\ Returned
    /\ threshold = 10
    /\ pred = << <<190, 10>>, <<10, 350>> >>
    /\ targets = <<15, 10>>
    /\ result.top1 = [num |-> 1, den |-> 2]
    /\ result.wrong_preds = << <<190, 15>> >>
    /\ CalculateTopk(<<pred[2], pred[1]>>, <<pred_post[2], pred_post[1]>>,
                     <<10, 15>>, 10, median).wrong_preds = << <<190, 15>> >>

(***************************************************************************)
(* C27. The top-1 accuracy never exceeds the top-K accuracy, in the        *)
(* returned pair and in every entry of the sweep.                          *)
(***************************************************************************)
C27_Top1AtMostTopK ==
    (pc = "done" /\ result.raised = "none") =>
        /\ ~IsNaN(result.top1) /\ ~IsNaN(result.top5)
        /\ result.top1.den = result.top5.den
        /\ result.top1.num <= result.top5.num
        /\ \A j \in DOMAIN result.topk_list :
              /\ result.topk_list[j][1].den = result.topk_list[j][2].den
              /\ result.topk_list[j][1].num <= result.topk_list[j][2].num

\* only the first candidate of the first sample and only the second of the
\* second sample are within the threshold
C27_Witness ==
    /\ pc = "done"
    /\ threshold = 10
    /\ pred = << <<10, 190>>, <<190, 10>> >>
    /\ targets = <<15, 15>>
    /\ result.top1 = [num |-> 1, den |-> 2]
    /\ result.top5 = [num |-> 2, den |-> 2]

(***************************************************************************)
(* C28. For a threshold T >= 0 the sweep has T + 1 entries, entry i the    *)
(* pair (top1, topK) at threshold i for i = 0 .. T; its last entry is the  *)
(* returned pair, and the returned matrix 'correct' is the one of          *)
(* threshold T.                                                            *)
(***************************************************************************)
C28_SweepEntries ==
    (pc = "done" /\ result.raised = "none" /\ threshold >= 0) =>
        /\ Len(result.topk_list) = threshold + 1
        /\ \A i \in 0 .. threshold :
              result.topk_list[i + 1] =
                  <<[num |-> Cardinality(Top1Hits(i)), den |-> NumSamples],
                    [num |-> Cardinality(TopKHits(i)), den |-> NumSamples]>>
        /\ result.topk_list[threshold + 1] = <<result.top1, result.top5>>
        /\ \A i \in 1 .. NumSamples : \A k \in 1 .. Len(pred[i]) :
              result.correct[i][k] =
                  (IF CircularDistance(pred[i][k], targets[i]) <= threshold
                   THEN 1 ELSE 0)

\* a sweep of eleven entries that steps from 0 to 1 at threshold 5
C28_Witness ==
    /\ pc = "done"
    /\ threshold = 10
    /\ pred = << <<10, 190>> >>
    /\ targets = <<15>>
    /\ Len(result.topk_list) = 11
    /\ IsZero(result.topk_list[5][1])
    /\ IsOne(result.topk_list[6][1])
    /\ result.correct = << <<1, 0>> >>

(***************************************************************************)
(* C29. For an angle field of 0 .. 359 the correction and the corners are  *)
(* skipped exactly when the angle is 0, 90, 180 or 270; any other angle    *)
(* takes the matching branch when 23 <= a90 <= 67 and the trigonometric    *)
(* branch otherwise, never both and never neither.                         *)
(***************************************************************************)
C29_BranchByAngle ==
    (pc \in {"drawing", "saved"} /\ line # <<>> /\ line[1] \in 0 .. 359) =>
        /\ box.raised = "none"
        /\ box.branch \in {"axis", "match", "trig"}
        /\ box.branch = "axis" <=> line[1] \in {0, 90, 180, 270}
        /\ box.branch = "axis" <=> box.a90 \in {0, 90}
        /\ box.branch = "match" <=>
              (line[1] % 90 # 0 /\ box.a90 >= 23 /\ box.a90 <= 67)
        /\ box.branch = "trig" <=>
              (line[1] % 90 # 0 /\ (box.a90 < 23 \/ box.a90 > 67))
        /\ box.branch = "axis" <=> "pt1" \notin DOMAIN box
        /\ box.branch = "match" <=> "min_value" \in DOMAIN box

\* 270 is skipped
C29_WitnessSkipped == 
    /\ pc \in {"drawing", "saved"}
    /\ line # <<>>
    /\ line[1] = 270
    /\ box.a90 = 90
    /\ box.branch = "axis"

(***************************************************************************)
(* C30: across the epochs of a training run best_fitness never decreases   *)
(* and, after each epoch, is the greatest of 0 and the top-1 accuracies    *)
(* validated so far; an epoch that writes best.pt has a top-1 accuracy     *)
(* equal to best_fitness, so that no earlier epoch had a higher one, and   *)
(* has written last.pt too.                                                *)
(***************************************************************************)
Validated == {top1s[i] : i \in 1 .. Len(top1s)}

Greatest(S) == CHOOSE m \in S : \A v \in S : v <= m

\* the loop stands between two epochs, or after the last
BetweenEpochs == pc \in {"epoch", "trained"}

AfterEpoch ==
    BetweenEpochs =>
        /\ best_fitness = Greatest({0} \cup Validated)
        /\ "best" \in saved =>
             /\ top1s[Len(top1s)] = best_fitness
             /\ fitness = best_fitness
             /\ \A i \in 1 .. Len(top1s) : top1s[i] <= top1s[Len(top1s)]
             /\ "last" \in saved

C30_BestFitnessAndCheckpoints ==
    /\ []AfterEpoch
    /\ [][best_fitness' >= best_fitness]_vars

\* a second epoch validated better than the first and wrote best.pt, a third
\* validated worse and wrote last.pt only
C30_Witness ==
    /\ BetweenEpochs
    /\ Len(top1s) = 3
    /\ top1s[1] < top1s[2]
    /\ top1s[3] < top1s[2]
    /\ best_fitness = top1s[2]
    /\ saved = {"last"}

====
